---- MODULE Spec2Model ----
(***************************************************************************)
(* Model of nipype/utils/config.py: the NipypeConfig settings store (a     *)
(* wrapper around configparser.ConfigParser with deprecated-option         *)
(* aliases), its lazily cached resource_monitor property, and the JSON     *)
(* data file shared between processes under an advisory lock.              *)
(*                                                                         *)
(* Python strings are sequences of one-character strings, so that lower(), *)
(* str(bool), '%s' % bool and ConfigParser's %-interpolation are computed. *)
(* Python values are tagged records of one shape.                          *)
(***************************************************************************)
EXTENDS Integers, Sequences, FiniteSets, TLC

VARIABLES
    _config,            \* self._config: section -> (option -> stored string)
    _resource_monitor,  \* self._resource_monitor: None, True or False
    pc,                 \* "new" before __init__'s body, "ready" / "failed" after
    last,               \* the last call on the store: arguments, result, warnings
    file,               \* contents of self.data_file: "absent" or a token sequence
    lock,               \* holder of the advisory exclusive lock, 0 when free
    proc                \* per process: position inside get_data / save_data

vars == <<_config, _resource_monitor, pc, last, file, lock, proc>>
storeVars == <<_config, _resource_monitor, pc, last>>
dataVars == <<file, lock, proc>>

----------------------------------------------------------------------------
(* Python values *)

PyStr(s) == [t |-> "str", s |-> s, b |-> FALSE]
PyBool(b) == [t |-> "bool", s |-> <<>>, b |-> b]
PyNone == [t |-> "none", s |-> <<>>, b |-> FALSE]
Raised(e) == [t |-> "raise", s |-> <<e>>, b |-> FALSE]

s_true == <<"t", "r", "u", "e">>
s_false == <<"f", "a", "l", "s", "e">>
s_True == <<"T", "r", "u", "e">>
s_False == <<"F", "a", "l", "s", "e">>
s_maybe == <<"m", "a", "y", "b", "e">>
s_INFO == <<"I", "N", "F", "O">>
s_DEBUG == <<"D", "E", "B", "U", "G">>
s_pct == <<"%">>
s_pctpct == <<"%", "%">>
s_on == <<"o", "n">>

LowerOf ==
    [A |-> "a", B |-> "b", C |-> "c", D |-> "d", E |-> "e", F |-> "f", G |-> "g",
     H |-> "h", I |-> "i", J |-> "j", K |-> "k", L |-> "l", M |-> "m", N |-> "n",
     O |-> "o", P |-> "p", Q |-> "q", R |-> "r", S |-> "s", T |-> "t", U |-> "u",
     V |-> "v", W |-> "w", X |-> "x", Y |-> "y", Z |-> "z"]

\* str.lower() on one character and on a string
lower_char(c) == IF c \in DOMAIN LowerOf THEN LowerOf[c] ELSE c

unlowered(s) == s

lower(s) == [i \in 1..Len(s) |-> lower_char(s[i])]

\* str(value) for the values the store is given
str(value) ==
    CASE value.t = "str" -> value.s
      [] value.t = "bool" -> (IF value.b THEN s_True ELSE s_False)
      [] value.t = "none" -> <<"N", "o", "n", "e">>
      [] OTHER -> value.s

\* dict[key] = value, creating the key when it is absent
Put(f, k, v) == [x \in (DOMAIN f) \cup {k} |-> IF x = k THEN v ELSE f[x]]

NoOptions == [o \in {} |-> <<>>]

----------------------------------------------------------------------------
(* configparser.ConfigParser, as far as NipypeConfig uses it *)

\* optionxform: option names are lower-cased on every access
optionxform(option) ==
    CASE option = "Profile_Runtime" -> "profile_runtime"
      [] option = "Resource_Monitor" -> "resource_monitor"
      [] OTHER -> option

\* BasicInterpolation.before_set: after removing every "%%", no "%" may remain
RECURSIVE percent_ok(_)
percent_ok(s) ==
    IF s = <<>> THEN TRUE
    ELSE IF Head(s) # "%" THEN percent_ok(Tail(s))
    ELSE IF Len(s) >= 2 /\ s[2] = "%" THEN percent_ok(SubSeq(s, 3, Len(s)))
    ELSE FALSE

\* BasicInterpolation.before_get on a string that passes percent_ok:
\* "%%" is read back as "%"
RECURSIVE interpolate(_)
interpolate(s) ==
    IF s = <<>> THEN <<>>
    ELSE IF Head(s) # "%" THEN <<Head(s)>> \o interpolate(Tail(s))
    ELSE <<"%">> \o interpolate(SubSeq(s, 3, Len(s)))

cp_has_option(cfg, section, option) ==
    /\ section \in DOMAIN cfg
    /\ optionxform(option) \in DOMAIN cfg[section]

\* ConfigParser.set: type check, interpolation syntax check, section lookup
cp_set(cfg, section, option, value) ==
    IF value.t # "str"
    THEN [exc |-> "TypeError", config |-> cfg]
    ELSE IF value.s # <<>> /\ ~percent_ok(value.s)
    THEN [exc |-> "ValueError", config |-> cfg]
    ELSE IF section \notin DOMAIN cfg
    THEN [exc |-> "NoSectionError", config |-> cfg]
    ELSE [exc |-> "",
          config |-> [cfg EXCEPT ![section] = Put(@, optionxform(option), value.s)]]

\* ConfigParser.get with the default BasicInterpolation
cp_get(cfg, section, option) ==
    IF section \notin DOMAIN cfg THEN Raised("NoSectionError")
    ELSE IF optionxform(option) \notin DOMAIN cfg[section] THEN Raised("NoOptionError")
    ELSE IF ~percent_ok(cfg[section][optionxform(option)])
    THEN Raised("InterpolationSyntaxError")
    ELSE PyStr(interpolate(cfg[section][optionxform(option)]))

BOOLEAN_TRUE == {<<"1">>, <<"y", "e", "s">>, s_true, s_on}
BOOLEAN_FALSE == {<<"0">>, <<"n", "o">>, s_false, <<"o", "f", "f">>}

\* ConfigParser.getboolean: get, then value.lower() looked up in BOOLEAN_STATES
cp_getboolean(cfg, section, option) ==
    LET v == cp_get(cfg, section, option) IN
    IF v.t = "raise" THEN v
    ELSE IF lower(v.s) \in BOOLEAN_TRUE THEN PyBool(TRUE)
    ELSE IF lower(v.s) \in BOOLEAN_FALSE THEN PyBool(FALSE)
    ELSE Raised("ValueError")

\* ConfigParser.readfp / read: every option of the source overlays the tree
cp_read(cfg, src) ==
    [s \in (DOMAIN cfg) \cup (DOMAIN src) |->
        IF s \notin DOMAIN src THEN cfg[s]
        ELSE IF s \notin DOMAIN cfg THEN src[s]
        ELSE [o \in (DOMAIN cfg[s]) \cup (DOMAIN src[s]) |->
                IF o \in DOMAIN src[s] THEN src[s][o] ELSE cfg[s][o]]]

----------------------------------------------------------------------------
(* Module constants *)

CONFIG_DEPRECATIONS ==
    [profile_runtime |-> <<"resource_monitor", "1.0">>,
     filemanip_level |-> <<"utils_level", "1.0">>]

\* the options of default_cfg that the deprecation table names
default_cfg ==
    [logging |-> [utils_level |-> s_INFO],
     execution |-> [resource_monitor |-> s_false],
     check |-> NoOptions]

----------------------------------------------------------------------------
(* NipypeConfig: get, set, getboolean, has_option *)

has_option(cfg, section, option) == cp_has_option(cfg, section, option)

get(cfg, section, option, default) ==
    LET dep == option \in DOMAIN CONFIG_DEPRECATIONS
        opt == IF dep THEN CONFIG_DEPRECATIONS[option][1] ELSE option
    IN  [ret |-> IF cp_has_option(cfg, section, opt)
                 THEN cp_get(cfg, section, opt)
                 ELSE default,
         warns |-> IF dep THEN 1 ELSE 0]

set_aliasless(cfg, section, option, value) ==
    LET val == IF value.t = "bool" THEN PyStr(str(value)) ELSE value
        r == cp_set(cfg, section, option, val)
    IN  [exc |-> r.exc, config |-> r.config, warns |-> 0]

set(cfg, section, option, value) ==
    LET val == IF value.t = "bool" THEN PyStr(str(value)) ELSE value
        dep == option \in DOMAIN CONFIG_DEPRECATIONS
        opt == IF dep THEN CONFIG_DEPRECATIONS[option][1] ELSE option
        r == cp_set(cfg, section, opt, val)
    IN  [exc |-> r.exc, config |-> r.config, warns |-> IF dep THEN 1 ELSE 0]

getboolean(cfg, section, option) == cp_getboolean(cfg, section, option)

----------------------------------------------------------------------------
(* The data file: get_data and save_data, one step per file operation *)

NumProcs == 2
MaxCalls == 2

Procs == 1..NumProcs
Keys == {"k1", "k2"}
SaveValues == {1, 2}

\* the file is a sequence of JSON tokens; every token has the same size
Tok(k, v) == [k |-> k, v |-> v]
OpenBrace == Tok("{", 0)
CloseBrace == Tok("}", 0)

\* a dict is the sequence of its items in insertion order
EmptyDict == <<>>

has_key(datadict, key) == \E i \in 1..Len(datadict) : datadict[i].k = key

\* datadict[key], None (the empty sequence) when the key is absent
lookup(datadict, key) ==
    IF has_key(datadict, key)
    THEN <<datadict[CHOOSE i \in 1..Len(datadict) : datadict[i].k = key].v>>
    ELSE <<>>

dict_set_fresh(datadict, key, value) == <<Tok(key, value)>>

dict_set_skipped(datadict, key, value) == datadict

\* datadict[key] = value
dict_set(datadict, key, value) ==
    IF has_key(datadict, key)
    THEN [i \in 1..Len(datadict) |->
            IF datadict[i].k = key THEN Tok(key, value) ELSE datadict[i]]
    ELSE Append(datadict, Tok(key, value))

\* simplejson.dump: the text of the whole mapping
dump(datadict) == <<OpenBrace>> \o datadict \o <<CloseBrace>>

\* simplejson.load succeeds on "{", items, "}" and on nothing else
loadable(content) ==
    /\ Len(content) >= 2
    /\ content[1] = OpenBrace
    /\ content[Len(content)] = CloseBrace
    /\ \A i \in 2..(Len(content) - 1) : content[i].k \notin {"{", "}"}

load(content) == SubSeq(content, 2, Len(content) - 1)

\* a handle opened with 'wt' writes from offset 0 over what the file holds
write_at_start(content, data) ==
    data \o SubSeq(content, Len(data) + 1, Len(content))

Absent == [exists |-> FALSE, content |-> <<>>]
Existing(datadict) == [exists |-> TRUE, content |-> dump(datadict)]

Idle == [pc |-> "idle", op |-> "none", key |-> "", value |-> 0,
         datadict |-> EmptyDict, ret |-> "none", result |-> <<>>,
         calls |-> 0, pre |-> Absent]

\* calls started so far, by all processes together
RECURSIVE CallsStarted(_)
CallsStarted(n) == IF n = 0 THEN 0 ELSE proc[n].calls + CallsStarted(n - 1)

\* a caller starts get_data(key)
StartGetData(p, key) ==
    /\ proc[p].pc = "idle"
    /\ CallsStarted(NumProcs) < MaxCalls
    /\ proc' = [proc EXCEPT ![p] = [Idle EXCEPT !.pc = "g_exists", !.op = "get_data",
                                        !.key = key, !.calls = proc[p].calls + 1]]
    /\ UNCHANGED <<file, lock, storeVars>>

\* if not os.path.exists(self.data_file): return None; else open(..., 'rt')
GetDataExists(p) ==
    /\ proc[p].pc = "g_exists"
    /\ proc' = [proc EXCEPT ![p] =
                    IF file.exists THEN [@ EXCEPT !.pc = "g_lock"]
                    ELSE [@ EXCEPT !.pc = "idle", !.ret = "ok", !.result = <<>>]]
    /\ UNCHANGED <<file, lock, storeVars>>

\* portalocker.lock(file, LOCK_EX): blocks until the lock is free
GetDataLock(p) ==
    /\ proc[p].pc = "g_lock"
    /\ lock = 0
    /\ lock' = p
    /\ proc' = [proc EXCEPT ![p].pc = "g_load"]
    /\ UNCHANGED <<file, storeVars>>

\* datadict = load(file); the with block closes the handle and frees the lock
GetDataLoad(p) ==
    /\ proc[p].pc = "g_load"
    /\ lock' = 0
    /\ proc' = [proc EXCEPT ![p] =
                    IF loadable(file.content)
                    THEN [@ EXCEPT !.pc = "idle", !.ret = "ok",
                                   !.datadict = load(file.content),
                                   !.result = lookup(load(file.content), proc[p].key)]
                    ELSE [@ EXCEPT !.pc = "idle", !.ret = "JSONDecodeError"]]
    /\ UNCHANGED <<file, storeVars>>

\* a caller starts save_data(key, value)
StartSaveData(p, key, value) ==
    /\ proc[p].pc = "idle"
    /\ CallsStarted(NumProcs) < MaxCalls
    /\ proc' = [proc EXCEPT ![p] = [Idle EXCEPT !.pc = "s_exists", !.op = "save_data",
                                        !.key = key, !.value = value,
                                        !.calls = proc[p].calls + 1,
                                        !.pre = file]]
    /\ UNCHANGED <<file, lock, storeVars>>

\* datadict = {}; if os.path.exists(self.data_file): open 'rt'; else mkdir_p
SaveDataExists(p) ==
    /\ proc[p].pc = "s_exists"
    /\ proc' = [proc EXCEPT ![p].pc = IF file.exists THEN "s_rlock" ELSE "s_wopen"]
    /\ UNCHANGED <<file, lock, storeVars>>

SaveDataReadLock(p) ==
    /\ proc[p].pc = "s_rlock"
    /\ lock = 0
    /\ lock' = p
    /\ proc' = [proc EXCEPT ![p].pc = "s_load"]
    /\ UNCHANGED <<file, storeVars>>

SaveDataLoad(p) ==
    /\ proc[p].pc = "s_load"
    /\ lock' = 0
    /\ proc' = [proc EXCEPT ![p] =
                    IF loadable(file.content)
                    THEN [@ EXCEPT !.pc = "s_wopen", !.datadict = load(file.content)]
                    ELSE [@ EXCEPT !.pc = "idle", !.ret = "JSONDecodeError"]]
    /\ UNCHANGED <<file, storeVars>>

\* open(self.data_file, 'wt'): creates or truncates the file, before any lock
SaveDataOpenWrite(p) ==
    /\ proc[p].pc = "s_wopen"
    /\ file' = [exists |-> TRUE, content |-> <<>>]
    /\ proc' = [proc EXCEPT ![p].pc = "s_wlock"]
    /\ UNCHANGED <<lock, storeVars>>

SaveDataWriteLock(p) ==
    /\ proc[p].pc = "s_wlock"
    /\ lock = 0
    /\ lock' = p
    /\ proc' = [proc EXCEPT ![p].pc = "s_dump"]
    /\ UNCHANGED <<file, storeVars>>

\* datadict[key] = value; dump(datadict, file); close flushes and frees the lock
SaveDataDump(p) ==
    /\ proc[p].pc = "s_dump"
    /\ LET d == dict_set(proc[p].datadict, proc[p].key, proc[p].value) IN
        /\ file' = [exists |-> TRUE, content |-> write_at_start(file.content, dump(d))]
        /\ proc' = [proc EXCEPT ![p] = [@ EXCEPT !.pc = "idle", !.ret = "ok",
                                                 !.datadict = d]]
    /\ lock' = 0
    /\ UNCHANGED storeVars

----------------------------------------------------------------------------
(* NipypeConfig.__init__ *)

\* for option in CONFIG_DEPRECATIONS: for section in ['execution', 'logging']
MigrationOrder ==
    << <<"profile_runtime", "execution">>, <<"profile_runtime", "logging">>,
       <<"filemanip_level", "execution">>, <<"filemanip_level", "logging">> >>

RECURSIVE migrate(_, _)
migrate(cfg, i) ==
    IF i > Len(MigrationOrder) THEN [exc |-> "", config |-> cfg]
    ELSE
      LET option == MigrationOrder[i][1]
          section == MigrationOrder[i][2]
          new_option == CONFIG_DEPRECATIONS[option][1]
      IN  IF has_option(cfg, section, option) /\ ~has_option(cfg, section, new_option)
          THEN LET r == set(cfg, section, new_option,
                            get(cfg, section, option, PyNone).ret)
               IN  IF r.exc # "" THEN [exc |-> r.exc, config |-> r.config]
                   ELSE migrate(r.config, i + 1)
          ELSE migrate(cfg, i + 1)

NoCall == [op |-> "none", section |-> "", option |-> "", value |-> PyNone,
           ret |-> PyNone, warns |-> 0, probed |-> FALSE,
           psutil |-> [present |-> FALSE, version |-> <<0, 0>>]]

\* contents of ~/.nipype/nipype.cfg and ./nipype.cfg, already merged
FileValues == {s_true, s_DEBUG}
FileOptions == {"profile_runtime", "resource_monitor", "filemanip_level", "utils_level"}
FileSections == {"execution", "logging"}
PartialMaps(D, R) == UNION {[S -> R] : S \in SUBSET D}
FileCfgs == [FileSections -> PartialMaps(FileOptions, FileValues)]

\* the body of __init__ after the defaults and the files are loaded
NipypeConfig_init ==
    /\ pc = "new"
    /\ LET r == migrate(_config, 1) IN
        /\ _config' = r.config
        /\ pc' = IF r.exc = "" THEN "ready" ELSE "failed"
        /\ last' = [NoCall EXCEPT !.op = "__init__",
                                  !.ret = IF r.exc = "" THEN PyNone ELSE Raised(r.exc)]
    /\ UNCHANGED <<_resource_monitor, dataVars>>

----------------------------------------------------------------------------
(* The resource_monitor property *)

STR2BOOL_TRUE == {<<"y", "e", "s">>, s_true, <<"t">>, <<"1">>}
STR2BOOL_FALSE == {<<"n", "o">>, s_false, <<"n">>, <<"f">>, <<"0">>}

\* nipype.utils.misc.str2bool: permissive boolean parsing of a string
str2bool(v) ==
    IF lower(v) \in STR2BOOL_TRUE THEN PyBool(TRUE)
    ELSE IF lower(v) \in STR2BOOL_FALSE THEN PyBool(FALSE)
    ELSE Raised("ValueError")

\* the optional dependency as one import finds it
PsutilAbsent == [present |-> FALSE, version |-> <<0, 0>>]
Psutil(major, minor) == [present |-> TRUE, version |-> <<major, minor>>]
PsutilStates == {PsutilAbsent, Psutil(4, 4), Psutil(5, 0)}

version_gt(a, b) == a[1] > b[1] \/ (a[1] = b[1] /\ a[2] > b[2])

\* LooseVersion(psutil.__version__) >= LooseVersion('5.0')
version_ge(a, b) == a[1] > b[1] \/ (a[1] = b[1] /\ a[2] >= b[2])

\* try: import psutil; version check / except ImportError: pass
probe(dep) == IF dep.present THEN version_ge(dep.version, <<5, 0>>) ELSE FALSE

persist_unlowered(cfg, flag) ==
    cp_set(cfg, "execution", "resource_monitor", PyStr(str(PyBool(flag)))).config

\* self._config.set('execution', 'resource_monitor', ('%s' % flag).lower())
persist(cfg, flag) ==
    cp_set(cfg, "execution", "resource_monitor",
           PyStr(lower(str(PyBool(flag))))).config

SetterResult(cfg, cache, warns, probed, exc) ==
    [config |-> cfg, cache |-> cache, warns |-> warns, probed |-> probed, exc |-> exc]

setter_false_persisting(cfg, cache) ==
    SetterResult(persist(cfg, FALSE), PyBool(FALSE), 0, FALSE, "")

\* if value is False: self._resource_monitor = False
setter_false(cfg, cache) == SetterResult(cfg, PyBool(FALSE), 0, FALSE, "")

\* elif value is True: probe unless the cached flag is already True
setter_true(cfg, cache, dep) ==
    IF cache # PyBool(TRUE)
    THEN LET resolved == probe(dep) IN
         SetterResult(persist(cfg, resolved), PyBool(resolved),
                      IF resolved THEN 0 ELSE 1, TRUE, "")
    ELSE SetterResult(cfg, cache, 0, FALSE, "")

resource_monitor_setter(cfg, cache, value, dep) ==
    LET coerced == IF value.t = "str" THEN str2bool(lower(value.s)) ELSE value IN
    IF coerced.t = "raise" THEN SetterResult(cfg, cache, 0, FALSE, "ValueError")
    ELSE IF coerced = PyBool(FALSE) THEN setter_false(cfg, cache)
    ELSE IF coerced = PyBool(TRUE) THEN setter_true(cfg, cache, dep)
    ELSE SetterResult(cfg, cache, 0, FALSE, "")

GetterResult(r, ret) ==
    [config |-> r.config, cache |-> r.cache, warns |-> r.warns,
     probed |-> r.probed, ret |-> ret]

\* the read with the cache ignored: coerce the stored string, assign it
\* through the setter, return the settled flag
getter_uncached(cfg, cache, dep) ==
    LET stored == cp_get(cfg, "execution", "resource_monitor") IN
    IF stored.t = "raise"
    THEN GetterResult(SetterResult(cfg, cache, 0, FALSE, ""), stored)
    ELSE LET value == IF stored.s = <<>> THEN PyBool(FALSE) ELSE stored
             r == resource_monitor_setter(cfg, cache, value, dep)
         IN  GetterResult(r, IF r.exc # "" THEN Raised(r.exc) ELSE r.cache)

resource_monitor_getter_reprobing(cfg, cache, dep) ==
    getter_uncached(cfg, cache, dep)

\* if self._resource_monitor is not None: return it; else the first read
resource_monitor_getter(cfg, cache, dep) ==
    IF cache # PyNone
    THEN GetterResult(SetterResult(cfg, cache, 0, FALSE, ""), cache)
    ELSE getter_uncached(cfg, cache, dep)

----------------------------------------------------------------------------
(* update_config, set_default_config *)

startswith_dunder(key) == key \in {"__name"}

RECURSIVE update_section(_, _, _, _)
update_section(cfg, section, items, keys) ==
    IF keys = {} THEN [exc |-> "", config |-> cfg]
    ELSE LET key == CHOOSE k \in keys : TRUE IN
         IF startswith_dunder(key)
         THEN update_section(cfg, section, items, keys \ {key})
         ELSE LET r == cp_set(cfg, section, key, PyStr(str(items[key]))) IN
              IF r.exc # "" THEN r
              ELSE update_section(r.config, section, items, keys \ {key})

UpdateOrder == <<"execution", "logging", "check">>

RECURSIVE update_config(_, _, _)
update_config(cfg, config_dict, i) ==
    IF i > Len(UpdateOrder) THEN [exc |-> "", config |-> cfg]
    ELSE IF UpdateOrder[i] \in DOMAIN config_dict
    THEN LET r == update_section(cfg, UpdateOrder[i], config_dict[UpdateOrder[i]],
                                 DOMAIN config_dict[UpdateOrder[i]])
         IN  IF r.exc # "" THEN r ELSE update_config(r.config, config_dict, i + 1)
    ELSE update_config(cfg, config_dict, i + 1)

set_default_config(cfg) == cp_read(cfg, default_cfg)

----------------------------------------------------------------------------
(* Calls on a constructed store *)

StoreSections == {"execution", "logging"}
StoreOptions == {"resource_monitor", "profile_runtime"}
SetValues == {PyStr(s_maybe), PyStr(s_pctpct), PyStr(<<>>), PyBool(TRUE), PyBool(FALSE)}
SetCalls ==
    (StoreSections \X StoreOptions \X SetValues)
    \cup {<<"nosuch", "resource_monitor", PyStr(s_maybe)>>,
          <<"execution", "resource_monitor", PyStr(s_pct)>>,
          <<"logging", "profile_runtime", PyNone>>}
GetCalls ==
    {<<"execution", "profile_runtime", PyNone>>,
     <<"logging", "resource_monitor", PyStr(s_DEBUG)>>,
     <<"execution", "Resource_Monitor", PyNone>>,
     <<"nosuch", "resource_monitor", PyNone>>}
GetBooleanCalls ==
    {<<"execution", "resource_monitor">>, <<"logging", "profile_runtime">>,
     <<"logging", "Resource_Monitor">>, <<"nosuch", "profile_runtime">>}
\* the setter consults the dependency only for a value that is True
MonitorCalls ==
    ({PyBool(TRUE), PyStr(s_True)} \X PsutilStates)
    \cup ({PyBool(FALSE), PyStr(s_false), PyStr(s_maybe), PyNone} \X {PsutilAbsent})
ConfigDicts ==
    {[s \in {sec} |-> [k \in {"profile_runtime"} |-> PyBool(FALSE)]] :
        sec \in {"execution", "logging", "other"}}
    \cup {[execution |-> [resource_monitor |-> PyStr(s_true)]],
          [logging |-> [__name |-> PyStr(s_true)]]}

Ready == pc = "ready"

Result(exc) == IF exc = "" THEN PyNone ELSE Raised(exc)

CallSet(section, option, value) ==
    /\ Ready
    /\ LET r == set(_config, section, option, value) IN
        /\ _config' = r.config
        /\ last' = [NoCall EXCEPT !.op = "set", !.section = section,
                                  !.option = option, !.value = value,
                                  !.ret = Result(r.exc),
                                  !.warns = r.warns]
    /\ UNCHANGED <<_resource_monitor, pc, dataVars>>

CallGet(section, option, default) ==
    /\ Ready
    /\ LET r == get(_config, section, option, default) IN
        last' = [NoCall EXCEPT !.op = "get", !.section = section,
                               !.option = option, !.value = default,
                               !.ret = r.ret, !.warns = r.warns]
    /\ UNCHANGED <<_config, _resource_monitor, pc, dataVars>>

CallGetBoolean(section, option) ==
    /\ Ready
    /\ last' = [NoCall EXCEPT !.op = "getboolean", !.section = section,
                              !.option = option,
                              !.ret = getboolean(_config, section, option)]
    /\ UNCHANGED <<_config, _resource_monitor, pc, dataVars>>

CallUpdateConfig(config_dict) ==
    /\ Ready
    /\ LET r == update_config(_config, config_dict, 1) IN
        /\ _config' = r.config
        /\ last' = [NoCall EXCEPT !.op = "update_config", !.ret = Result(r.exc)]
    /\ UNCHANGED <<_resource_monitor, pc, dataVars>>

CallSetDefaultConfig ==
    /\ Ready
    /\ _config' = set_default_config(_config)
    /\ last' = [NoCall EXCEPT !.op = "set_default_config"]
    /\ UNCHANGED <<_resource_monitor, pc, dataVars>>

CallResourceMonitorGet(dep) ==
    /\ Ready
    /\ LET r == resource_monitor_getter(_config, _resource_monitor, dep) IN
        /\ _config' = r.config
        /\ _resource_monitor' = r.cache
        /\ last' = [NoCall EXCEPT !.op = "resource_monitor.getter",
                                  !.ret = r.ret, !.warns = r.warns,
                                  !.probed = r.probed,
                                  !.psutil = dep]
    /\ UNCHANGED <<pc, dataVars>>

CallResourceMonitorSet(value, dep) ==
    /\ Ready
    /\ LET r == resource_monitor_setter(_config, _resource_monitor, value, dep) IN
        /\ _config' = r.config
        /\ _resource_monitor' = r.cache
        /\ last' = [NoCall EXCEPT !.op = "resource_monitor.setter",
                                  !.value = value, !.ret = Result(r.exc),
                                  !.warns = r.warns, !.probed = r.probed,
                                  !.psutil = dep]
    /\ UNCHANGED <<pc, dataVars>>

\* enable_resource_monitor: self.resource_monitor = True
CallEnableResourceMonitor(dep) ==
    /\ Ready
    /\ LET r == resource_monitor_setter(_config, _resource_monitor, PyBool(TRUE), dep) IN
        /\ _config' = r.config
        /\ _resource_monitor' = r.cache
        /\ last' = [NoCall EXCEPT !.op = "enable_resource_monitor",
                                  !.value = PyBool(TRUE), !.ret = Result(r.exc),
                                  !.warns = r.warns, !.probed = r.probed,
                                  !.psutil = dep]
    /\ UNCHANGED <<pc, dataVars>>

InitData ==
    /\ file = Absent
    /\ lock = 0
    /\ proc = [p \in Procs |-> Idle]

InitFiles ==
    /\ \E files \in FileCfgs : _config = cp_read(default_cfg, files)
    /\ _resource_monitor = PyNone
    /\ pc = "new"
    /\ last = NoCall
    /\ InitData

NextInit == NipypeConfig_init

SpecInit == InitFiles /\ [][NextInit]_vars


\* a store constructed where no nipype.cfg exists: defaults, then __init__'s body
Init ==
    /\ _config = migrate(default_cfg, 1).config
    /\ _resource_monitor = PyNone
    /\ pc = "ready"
    /\ last = NoCall
    /\ InitData

Next ==
    \/ \E c \in SetCalls : CallSet(c[1], c[2], c[3])
    \/ \E c \in GetCalls : CallGet(c[1], c[2], c[3])
    \/ \E c \in GetBooleanCalls : CallGetBoolean(c[1], c[2])
    \/ \E config_dict \in ConfigDicts : CallUpdateConfig(config_dict)
    \/ CallSetDefaultConfig
    \/ \E dep \in PsutilStates : CallResourceMonitorGet(dep)
    \/ \E c \in MonitorCalls : CallResourceMonitorSet(c[1], c[2])
    \/ \E dep \in PsutilStates : CallEnableResourceMonitor(dep)

Spec == Init /\ [][Next]_vars

\* processes sharing one data file, which earlier runs may have left behind
InitFile ==
    /\ file \in {Absent, Existing(EmptyDict), Existing(<<Tok("k1", 0)>>)}
    /\ lock = 0
    /\ proc = [p \in Procs |-> Idle]
    /\ _config = migrate(default_cfg, 1).config
    /\ _resource_monitor = PyNone
    /\ pc = "ready"
    /\ last = NoCall

NextData ==
    \E p \in Procs :
        \/ \E key \in Keys : StartGetData(p, key)
        \/ GetDataExists(p)
        \/ GetDataLock(p)
        \/ GetDataLoad(p)
        \/ \E key \in Keys, value \in SaveValues : StartSaveData(p, key, value)
        \/ SaveDataExists(p)
        \/ SaveDataReadLock(p)
        \/ SaveDataLoad(p)
        \/ SaveDataOpenWrite(p)
        \/ SaveDataWriteLock(p)
        \/ SaveDataDump(p)

SpecData == InitFile /\ [][NextData]_vars

----------------------------------------------------------------------------
(* Properties of construction *)

MigrationSections == {"execution", "logging"}

\* C1: alias migration at construction. For every deprecated option O with
\* replacement N and every section S of {execution, logging}: if O is present
\* in S and N is not when the defaults and the files are loaded, construction
\* completes and N then exists in S with the value O had.
C1_AliasMigration ==
    [][(pc = "new" /\ pc' # "new") =>
        \A O \in DOMAIN CONFIG_DEPRECATIONS, S \in MigrationSections :
            LET N == CONFIG_DEPRECATIONS[O][1] IN
            (has_option(_config, S, O) /\ ~has_option(_config, S, N)) =>
                /\ pc' = "ready"
                /\ has_option(_config', S, N)
                /\ _config'[S][N] = _config[S][O]]_vars

----------------------------------------------------------------------------
(* Properties of the constructed store *)

HasPercent(s) == \E i \in 1..Len(s) : s[i] = "%"

SetSucceeded == last.op = "set" /\ last.ret = PyNone

\* C2 as stated: after every successful set(section, option, value) with a
\* non-boolean string value, get(section, option) returns exactly value.
C2_SetGetRoundTrip_Original ==
    (SetSucceeded /\ last.value.t = "str") =>
        get(_config, last.section, last.option, PyNone).ret = last.value

\* C2 amended: after every successful set(section, option, value) on a section
\* of the settings tree with a string value that contains no "%",
\* get(section, option) returns exactly value; deprecated alias names included.
C2_SetGetRoundTrip ==
    (SetSucceeded /\ last.value.t = "str" /\ ~HasPercent(last.value.s)) =>
        get(_config, last.section, last.option, PyNone).ret = last.value

C2_Witness ==
    /\ SetSucceeded
    /\ last.section = "logging"
    /\ last.option = "profile_runtime"
    /\ last.value = PyStr(s_maybe)
    /\ _config["logging"]["resource_monitor"] = s_maybe

\* C3 as stated: after every successful set(section, option, b) with a boolean
\* b, getboolean(section, option) with the same option name returns b,
\* deprecated alias names included.
C3_BooleanRoundTrip_Original ==
    (SetSucceeded /\ last.value.t = "bool") =>
        getboolean(_config, last.section, last.option) = last.value

\* C3 amended: after every successful set(section, option, b) with a boolean b
\* and an option name that is not a deprecated alias,
\* getboolean(section, option) returns b.
C3_BooleanRoundTrip ==
    (SetSucceeded /\ last.value.t = "bool"
        /\ last.option \notin DOMAIN CONFIG_DEPRECATIONS) =>
        getboolean(_config, last.section, last.option) = last.value

C3_Witness ==
    /\ SetSucceeded
    /\ last.section = "logging"
    /\ last.option = "resource_monitor"
    /\ last.value = PyBool(TRUE)
    /\ _config["logging"]["resource_monitor"] = s_True

SetterOps == {"resource_monitor.setter", "enable_resource_monitor"}

CoercesTo(value, b) ==
    (IF value.t = "str" THEN str2bool(lower(value.s)) ELSE value) = PyBool(b)

EnablingCall(l) == l.op \in SetterOps /\ CoercesTo(l.value, TRUE)

AtLeast5(dep) == dep.present /\ dep.version[1] >= 5

\* C4 as stated: in every state of the store, the setter called with True
\* leaves the cached flag False with exactly one warning when the dependency
\* is unavailable, True when it is available at version >= 5.0, and False
\* with a warning when it is available below 5.0.
C4_EnableOutcome_Original ==
    EnablingCall(last) =>
        /\ ~last.psutil.present =>
                (_resource_monitor = PyBool(FALSE) /\ last.warns = 1)
        /\ AtLeast5(last.psutil) => _resource_monitor = PyBool(TRUE)
        /\ (last.psutil.present /\ ~AtLeast5(last.psutil)) =>
                (_resource_monitor = PyBool(FALSE) /\ last.warns >= 1)

\* C4 amended: the setter called with True from a state whose cached flag is
\* unset or False leaves the flag False with exactly one warning when the
\* dependency is unavailable, True when it is available at version >= 5.0, and
\* False with one warning when it is available below 5.0; called when the
\* cached flag is already True it probes nothing, warns nothing and leaves the
\* flag True.
C4_EnableOutcome ==
    [][EnablingCall(last') =>
        IF _resource_monitor # PyBool(TRUE)
        THEN /\ last'.probed
             /\ ~last'.psutil.present =>
                    (_resource_monitor' = PyBool(FALSE) /\ last'.warns = 1)
             /\ AtLeast5(last'.psutil) =>
                    (_resource_monitor' = PyBool(TRUE) /\ last'.warns = 0)
             /\ (last'.psutil.present /\ ~AtLeast5(last'.psutil)) =>
                    (_resource_monitor' = PyBool(FALSE) /\ last'.warns = 1)
        ELSE /\ _resource_monitor' = PyBool(TRUE)
             /\ ~last'.probed
             /\ last'.warns = 0]_vars

C4_Witness ==
    /\ last.op = "enable_resource_monitor"
    /\ last.psutil = Psutil(5, 0)
    /\ last.probed
    /\ _resource_monitor = PyBool(TRUE)

PersistedFlag == IF _resource_monitor = PyBool(TRUE) THEN s_true ELSE s_false

\* C5 as stated: after every call of the setter with True, from any state,
\* execution.resource_monitor is the lower-cased string of the cached flag.
C5_PersistAfterEnable_Original ==
    EnablingCall(last) =>
        /\ _resource_monitor \in {PyBool(TRUE), PyBool(FALSE)}
        /\ _config["execution"]["resource_monitor"] = PersistedFlag

\* C5 amended: after every call of the setter with True from a state whose
\* cached flag is not already True, execution.resource_monitor is the
\* lower-cased string of the cached flag; a call made when the cached flag is
\* already True leaves the settings tree as it is.
C5_PersistAfterEnable ==
    [][EnablingCall(last') =>
        IF _resource_monitor # PyBool(TRUE)
        THEN /\ _resource_monitor' \in {PyBool(TRUE), PyBool(FALSE)}
             /\ _config'["execution"]["resource_monitor"] =
                    (IF _resource_monitor' = PyBool(TRUE) THEN s_true ELSE s_false)
        ELSE _config' = _config]_vars

C5_Witness ==
    /\ last.op = "resource_monitor.setter"
    /\ last.value = PyStr(s_True)
    /\ last.probed
    /\ last.psutil = Psutil(4, 4)
    /\ _resource_monitor = PyBool(FALSE)
    /\ _config["execution"]["resource_monitor"] = s_false

\* C6: the setter called with False, or a string that coerces to False,
\* leaves the cached flag False, probes nothing, warns nothing and leaves
\* every option of the settings tree unchanged.
C6_DisableFrame ==
    [][(last'.op = "resource_monitor.setter" /\ CoercesTo(last'.value, FALSE)) =>
        /\ _resource_monitor' = PyBool(FALSE)
        /\ ~last'.probed
        /\ last'.warns = 0
        /\ last'.ret = PyNone
        /\ _config' = _config]_vars

C6_Witness ==
    /\ last.op = "resource_monitor.setter"
    /\ last.value = PyStr(s_false)
    /\ _resource_monitor = PyBool(FALSE)
    /\ _config["execution"]["resource_monitor"] = s_true

Settled(flag) == flag \in {PyBool(TRUE), PyBool(FALSE)}

Sticky == Settled(_resource_monitor) => Settled(_resource_monitor')

CachedRead ==
    (last'.op = "resource_monitor.getter" /\ Settled(_resource_monitor)) =>
        /\ last'.ret = _resource_monitor
        /\ ~last'.probed
        /\ last'.warns = 0
        /\ _resource_monitor' = _resource_monitor
        /\ _config' = _config

StoredCoercible(cfg) ==
    LET stored == cp_get(cfg, "execution", "resource_monitor") IN
    /\ stored.t = "str"
    /\ \/ stored.s = <<>>
       \/ lower(stored.s) \in STR2BOOL_TRUE \cup STR2BOOL_FALSE

----------------------------------------------------------------------------
(* Properties of the data file *)

Solo(p) == \A q \in Procs \ {p} : proc[q].calls = 0

Saved(p) == proc[p].pc = "idle" /\ proc[p].op = "save_data"

MappingOf(f) == IF f.exists THEN load(f.content) ELSE EmptyDict

\* C8: when no other process touches the data file, after save_data(k, v)
\* completes the file holds the mapping it held before the call (the empty
\* mapping if it did not exist) with k mapped to v: a read of k gives v and a
\* read of any other key gives what it gave before the call.
C8_FunctionalUpdate ==
    \A p \in Procs :
        (Solo(p) /\ Saved(p)) =>
            /\ proc[p].ret = "ok"
            /\ file.exists
            /\ loadable(file.content)
            /\ \A k \in Keys :
                lookup(load(file.content), k) =
                    IF k = proc[p].key THEN <<proc[p].value>>
                    ELSE lookup(MappingOf(proc[p].pre), k)

C8_Witness ==
    \E p \in Procs :
        /\ Solo(p)
        /\ Saved(p)
        /\ proc[p].calls = 2
        /\ proc[p].key = "k2"
        /\ lookup(MappingOf(proc[p].pre), "k1") = <<1>>
        /\ file.content = dump(<<Tok("k1", 1), Tok("k2", 2)>>)

SavedOnce(p) == Saved(p) /\ proc[p].ret = "ok" /\ proc[p].calls = 1

Holds(p) ==
    /\ loadable(file.content)
    /\ lookup(load(file.content), proc[p].key) = <<proc[p].value>>

\* neither call read the file after the other call wrote it
ReadBeforeWrites(p, q) ==
    /\ lookup(proc[p].datadict, proc[q].key) # <<proc[q].value>>
    /\ lookup(proc[q].datadict, proc[p].key) # <<proc[p].value>>

RacingSaves(p, q) ==
    /\ p # q
    /\ SavedOnce(p) /\ SavedOnce(q)
    /\ proc[p].key # proc[q].key
    /\ proc[p].pre.exists /\ proc[q].pre.exists
    /\ \A r \in Procs \ {p, q} : proc[r].calls = 0
    /\ ReadBeforeWrites(p, q)

\* C9: lost update. When two processes each call save_data once on the same
\* existing data file with distinct keys and both finish their locked read
\* before either performs its locked write, then after both calls have
\* completed the file does not hold both updates: if it is a complete mapping
\* it holds the update of exactly one of the two calls.
C9_LostUpdate ==
    \A p, q \in Procs :
        RacingSaves(p, q) =>
            /\ ~(Holds(p) /\ Holds(q))
            /\ loadable(file.content) => (Holds(p) # Holds(q))

C9_Witness ==
    /\ RacingSaves(1, 2)
    /\ proc[1].key = "k1" /\ proc[2].key = "k2"
    /\ proc[1].pre = Existing(<<Tok("k1", 0)>>)
    /\ file.content = dump(<<Tok("k1", 1)>>)

\* C10: the lock protects each file operation. While one process holds the
\* exclusive lock no other process changes the contents of the file, and every
\* locked read in get_data or save_data finds a complete mapping in the file,
\* never an empty or truncated one.
C10_LockProtects ==
    [][/\ (lock # 0 /\ lock' = lock) => file' = file
       /\ \A p \in Procs :
            proc'[p].pc \in {"g_load", "s_load"} => loadable(file'.content)]_vars

====
